---- MODULE Spec2Model ----
(***************************************************************************)
(* Model of run.py (uccser/arnold): the batch driver main(), the Project   *)
(* class (clone, run), setup_git_account and the exception hook            *)
(* handle_exception.  Every call into a                                    *)
(* collaborator (run_shell, the five task functions, get_crowdin_api_key,  *)
(* the GitHub API, yaml.load) either returns or raises; a raise that no    *)
(* except clause of run.py catches unwinds main() and ends the process.    *)
(***************************************************************************)
EXTENDS Integers, Sequences, FiniteSets, TLC

(* Number of repositories of the account (uccser.get_repos()). *)
NumRepos == 2

Repos == 1..NumRepos

(* ------------------------------------------------------------------ *)
(* Module-level constants of run.py                                   *)
(* ------------------------------------------------------------------ *)

ALL_TASKS_KEYWORD == "all"

TASKS ==
    << "link-checker",
       "update-source-message-files",
       "push-source-files",
       "build-project",
       "pull-translations" >>

TaskSet == { TASKS[i] : i \in 1..Len(TASKS) }

TranslationTasks == { TASKS[i] : i \in 2..Len(TASKS) }

(* Position of a task in TASKS. *)
TaskIndex(t) == CHOOSE i \in 1..Len(TASKS) : TASKS[i] = t

(* A keyword list that holds only the task's own name ("all" forgotten). *)
TASK_KEYWORDS_NoAll(keyword) == { keyword }

(* A keyword list shared by all tasks (one list object filled in the loop). *)
TASK_KEYWORDS_Shared(keyword) == TaskSet \cup { ALL_TASKS_KEYWORD }

(* TASK_KEYWORDS[keyword] = [keyword, ALL_TASKS_KEYWORD] *)
TASK_KEYWORDS(keyword) == { keyword, ALL_TASKS_KEYWORD }

(* Values the positional CLI argument "task" is drawn from: argparse      *)
(* accepts any string, so one keyword that names no task is included.     *)
CliTasks == TaskSet \cup { ALL_TASKS_KEYWORD, "no-such-task" }

(* ------------------------------------------------------------------ *)
(* Config documents                                                   *)
(* ------------------------------------------------------------------ *)

(* Values of the key broken-link-checker. *)
BlcValues == { "true", "false" }

(* Values of the key translation: a boolean or a settings mapping. *)
TranslationValues == { "true", "false", "object" }

(* Python truthiness of a YAML value. *)
Truthy(v) == v \in { "true", "object" }

(* What .arnold.yaml of a repository can be: absent, text that is not     *)
(* YAML, a null document, an empty mapping, or a mapping with keys.       *)
Documents ==
    { [kind |-> k, blc |-> "none", translation |-> "none"] :
        k \in { "absent", "invalid", "null", "empty" } }
    \cup
    { [kind |-> "map", blc |-> b, translation |-> t] :
        b \in BlcValues, t \in TranslationValues }

(* The local variable config of main() before its first assignment. *)
Unbound == [kind |-> "unbound", blc |-> "none", translation |-> "none"]

NoDocument == [kind |-> "unfetched", blc |-> "none", translation |-> "none"]

(* yaml.load on the decoded content: raises yaml.YAMLError on invalid     *)
(* text, returns None for a null document and the mapping otherwise.      *)
yaml_load(doc) ==
    IF doc.kind = "invalid"
    THEN [raised |-> TRUE, value |-> Unbound]
    ELSE [raised |-> FALSE, value |-> doc]

(* A test of config that lets every parsed document through. *)
ConfigTruthy_Always(c) == TRUE

(* bool(config) as tested by "if config:": None and {} are false. *)
ConfigTruthy(c) == c.kind = "map"

(* config.get(key) for a mapping. *)
ConfigGet(c, key) == IF key = "broken-link-checker" THEN c.blc ELSE c.translation

(* ------------------------------------------------------------------ *)
(* State                                                              *)
(* ------------------------------------------------------------------ *)

VARIABLES
    pc,           \* position of main(): the next statement to execute
    task,         \* args.task
    skip_clone,   \* args.skip_clone
    secrets,      \* outcome of read_secrets: "unread", "ok", "missing"
    uccser_repos, \* the list the for loop iterates
    idx,          \* position of the for loop in uccser_repos
    docs,         \* the config document each repository holds, once fetched
    config_file,  \* local config_file: "None" or "file"
    config,       \* local config of main() (survives across iterations)
    config_src,   \* the repository whose document config was parsed from
    project,      \* local project: the Project under work; start_time is the
                  \* length of trace when the checkpoint was last taken
    cwd,          \* current directory: 0 is the projects directory, r is projects/r
    trace,        \* what the run has done so far, in order
    raised        \* the uncaught exception that ended the run, or "none"

vars == << pc, task, skip_clone, secrets, uccser_repos, idx, docs, config_file,
           config, config_src, project, cwd, trace, raised >>

NoProject == [config |-> Unbound, name |-> 0, directory |-> 0, start_time |-> 0]

Event(e, r) == [ev |-> e, repo |-> r, src |-> 0]

ProjectEvent(r, s) == [ev |-> "Project", repo |-> r, src |-> s]

(* The repository of the current loop iteration. *)
repo == uccser_repos[idx]

Init ==
    /\ pc = "read_secrets"
    /\ task \in CliTasks
    /\ skip_clone \in BOOLEAN
    /\ secrets = "unread"
    /\ uccser_repos = << >>
    /\ idx = 0
    /\ docs = [r \in Repos |-> NoDocument]
    /\ config_file = "None"
    /\ config = Unbound
    /\ config_src = 0
    /\ project = NoProject
    /\ cwd = 0
    /\ trace = << >>
    /\ raised = "none"

(* An exception no except clause catches leaves main() and reaches        *)
(* sys.excepthook.                                                        *)
Raise(exc, events) ==
    /\ pc' = "excepthook"
    /\ raised' = exc
    /\ trace' = trace \o events

(* ------------------------------------------------------------------ *)
(* main(): start-up                                                   *)
(* ------------------------------------------------------------------ *)

(* read_secrets(REQUIRED_SECRETS): returns the secrets when every required *)
(* one is present and terminates the process otherwise.                    *)
read_secrets(present) == IF present THEN "ok" ELSE "missing"

(* A start-up that goes on to the repositories whatever read_secrets found. *)
main_read_secrets_Unchecked ==
    /\ pc = "read_secrets"
    /\ \E present \in BOOLEAN : secrets' = read_secrets(present)
    /\ pc' = "resolve"
    /\ UNCHANGED << task, skip_clone, uccser_repos, idx, docs, config_file,
                    config, config_src, project, cwd, trace, raised >>

(* secrets = read_secrets(REQUIRED_SECRETS) *)
main_read_secrets ==
    /\ pc = "read_secrets"
    /\ \E present \in BOOLEAN :
          /\ secrets' = read_secrets(present)
          /\ pc' = IF read_secrets(present) = "ok" THEN "resolve" ELSE "exited"
    /\ UNCHANGED << task, skip_clone, uccser_repos, idx, docs, config_file,
                    config, config_src, project, cwd, trace, raised >>

(* os.chdir(PROJECT_DIRECTORY) and the choice of the repository list:     *)
(* [uccser.get_repo(args.repo)] when --repo is given, else get_repos().   *)
main_resolve_repos ==
    /\ pc = "resolve"
    /\ \E arg \in {0} \cup Repos :
          uccser_repos' = IF arg # 0 THEN << arg >> ELSE [i \in Repos |-> i]
    /\ cwd' = 0
    /\ idx' = 1
    /\ trace' = Append(trace, Event("get_repos", 0))
    /\ pc' = "for"
    /\ UNCHANGED << task, skip_clone, secrets, docs, config_file, config,
                    config_src, project, raised >>

(* ------------------------------------------------------------------ *)
(* main(): the loop over the repositories                             *)
(* ------------------------------------------------------------------ *)

(* A loop head that does not go back to the projects directory. *)
main_for_NoChdir ==
    /\ pc = "for"
    /\ pc' = IF idx <= Len(uccser_repos) THEN "get_contents" ELSE "summary"
    /\ UNCHANGED << task, skip_clone, secrets, uccser_repos, idx, docs, cwd,
                    config_file, config, config_src, project, trace, raised >>

(* for repo in uccser_repos: os.chdir(directory_of_projects); at the end  *)
(* of the list, go on to the statement after the loop.                    *)
main_for ==
    /\ pc = "for"
    /\ IF idx <= Len(uccser_repos)
       THEN /\ cwd' = 0
            /\ pc' = "get_contents"
       ELSE /\ cwd' = cwd
            /\ pc' = "summary"
    /\ UNCHANGED << task, skip_clone, secrets, uccser_repos, idx, docs,
                    config_file, config, config_src, project, trace, raised >>

(* try: config_file = repo.get_contents(...)                              *)
(* except github.GithubException: config_file = None                      *)
main_get_contents ==
    /\ pc = "get_contents"
    /\ \E doc \in Documents :
          /\ docs' = [docs EXCEPT ![repo] = doc]
          /\ config_file' = IF doc.kind = "absent" THEN "None" ELSE "file"
    /\ trace' = Append(trace, Event("get_contents", repo))
    /\ pc' = "if_config_file"
    /\ UNCHANGED << task, skip_clone, secrets, uccser_repos, idx, config,
                    config_src, project, cwd, raised >>

(* A test of config_file that takes the branch when there is no file. *)
main_if_config_file_Inverted ==
    /\ pc = "if_config_file"
    /\ pc' = IF config_file = "None" THEN "yaml_load" ELSE "end_iteration"
    /\ UNCHANGED << task, skip_clone, secrets, uccser_repos, idx, docs,
                    config_file, config, config_src, project, cwd, trace, raised >>

(* if config_file: *)
main_if_config_file ==
    /\ pc = "if_config_file"
    /\ pc' = IF config_file = "file" THEN "yaml_load" ELSE "end_iteration"
    /\ UNCHANGED << task, skip_clone, secrets, uccser_repos, idx, docs,
                    config_file, config, config_src, project, cwd, trace, raised >>

(* try: config = yaml.load(...)                                           *)
(* except yaml.YAMLError: logging.error(...)   (config is not assigned)   *)
main_yaml_load ==
    /\ pc = "yaml_load"
    /\ LET result == yaml_load(docs[repo]) IN
          IF result.raised
          THEN /\ trace' = Append(trace, Event("logging.error", repo))
               /\ UNCHANGED << config, config_src >>
          ELSE /\ config' = result.value
               /\ config_src' = repo
               /\ trace' = trace
    /\ pc' = "if_config"
    /\ UNCHANGED << task, skip_clone, secrets, uccser_repos, idx, docs,
                    config_file, project, cwd, raised >>

(* if config:   (reading config before any assignment raises              *)
(* UnboundLocalError, which nothing catches)                              *)
main_if_config ==
    /\ pc = "if_config"
    /\ IF config.kind = "unbound"
       THEN Raise("UnboundLocalError", << >>)
       ELSE /\ pc' = IF ConfigTruthy(config) THEN "Project" ELSE "end_iteration"
            /\ UNCHANGED << trace, raised >>
    /\ UNCHANGED << task, skip_clone, secrets, uccser_repos, idx, docs,
                    config_file, config, config_src, project, cwd >>

(* A driver that builds the Project and forgets project.clone(). *)
Project__init___NoClone ==
    /\ pc = "Project"
    /\ trace' = Append(trace, ProjectEvent(repo, config_src))
    /\ project' = [config |-> config, name |-> repo, directory |-> repo,
                   start_time |-> Len(trace')]
    /\ pc' = "chdir"
    /\ UNCHANGED << task, skip_clone, secrets, uccser_repos, idx, docs,
                    config_file, config, config_src, cwd, raised >>

(* project = Project(config, repo, bot, secrets, directory_of_projects, args) *)
(* and the call project.clone() that follows it.                          *)
Project__init__ ==
    /\ pc = "Project"
    /\ trace' = Append(trace, ProjectEvent(repo, config_src))
    /\ project' = [config |-> config, name |-> repo, directory |-> repo,
                   start_time |-> Len(trace')]
    /\ pc' = "clone"
    /\ UNCHANGED << task, skip_clone, secrets, uccser_repos, idx, docs,
                    config_file, config, config_src, cwd, raised >>

(* ------------------------------------------------------------------ *)
(* Project.clone, os.chdir, setup_git_account                         *)
(* ------------------------------------------------------------------ *)

(* What Project.clone does once past the skip_clone test: the trace of    *)
(* os.path.isdir, of the removal if the directory exists, and of the      *)
(* clone; run_shell may raise in either call.                             *)
RemoveAndClone(isdir, rm_ok, clone_ok) ==
    LET test == << Event(IF isdir THEN "isdir:True" ELSE "isdir:False", project.name) >>
        rm   == IF isdir THEN << Event("rm", project.name) >> ELSE << >>
        git  == << Event("git clone", project.name) >>
    IN  IF isdir /\ ~rm_ok
        THEN Raise("rm", test \o rm)
        ELSE IF ~clone_ok
             THEN Raise("git clone", test \o rm \o git)
             ELSE /\ trace' = trace \o test \o rm \o git
                  /\ pc' = "chdir"
                  /\ raised' = raised

(* A clone that does not look at args.skip_clone. *)
Project_clone_IgnoresSkip ==
    /\ pc = "clone"
    /\ \E isdir \in BOOLEAN, rm_ok \in BOOLEAN, clone_ok \in BOOLEAN :
          RemoveAndClone(isdir, rm_ok, clone_ok)
    /\ UNCHANGED << task, skip_clone, secrets, uccser_repos, idx, docs,
                    config_file, config, config_src, project, cwd >>

(* A clone that clones over whatever is there: the directory is tested    *)
(* but never removed.                                                     *)
Project_clone_NoRemove ==
    /\ pc = "clone"
    /\ IF skip_clone
       THEN /\ pc' = "chdir"
            /\ UNCHANGED << trace, raised >>
       ELSE \E isdir \in BOOLEAN, clone_ok \in BOOLEAN :
               LET test == << Event(IF isdir THEN "isdir:True" ELSE "isdir:False",
                                    project.name) >>
                   git  == << Event("git clone", project.name) >>
               IN  IF ~clone_ok
                   THEN Raise("git clone", test \o git)
                   ELSE /\ trace' = trace \o test \o git
                        /\ pc' = "chdir"
                        /\ raised' = raised
    /\ UNCHANGED << task, skip_clone, secrets, uccser_repos, idx, docs,
                    config_file, config, config_src, project, cwd >>

(* project.clone(): unless args.skip_clone, remove the directory if it    *)
(* exists (run_shell rm), then run_shell git clone; run_shell may raise.  *)
Project_clone ==
    /\ pc = "clone"
    /\ IF skip_clone
       THEN /\ pc' = "chdir"
            /\ UNCHANGED << trace, raised >>
       ELSE \E isdir \in BOOLEAN, rm_ok \in BOOLEAN, clone_ok \in BOOLEAN :
               RemoveAndClone(isdir, rm_ok, clone_ok)
    /\ UNCHANGED << task, skip_clone, secrets, uccser_repos, idx, docs,
                    config_file, config, config_src, project, cwd >>

(* os.chdir(project.directory): after a clone the directory is there;     *)
(* with args.skip_clone it is there only if an earlier run left it.       *)
main_chdir ==
    /\ pc = "chdir"
    /\ \E exists \in IF skip_clone THEN BOOLEAN ELSE { TRUE } :
          IF exists
          THEN /\ cwd' = project.directory
               /\ pc' = "setup_git_account"
               /\ UNCHANGED << trace, raised >>
          ELSE /\ Raise("chdir", << >>)
               /\ cwd' = cwd
    /\ UNCHANGED << task, skip_clone, secrets, uccser_repos, idx, docs,
                    config_file, config, config_src, project >>

(* setup_git_account(): two run_shell calls (git config user.name,        *)
(* git config user.email); either may raise.                              *)
setup_git_account ==
    /\ pc = "setup_git_account"
    /\ \E ok \in BOOLEAN :
          IF ok
          THEN /\ trace' = Append(trace, Event("setup_git_account", repo))
               /\ pc' = TASKS[1]
               /\ raised' = raised
          ELSE Raise("setup_git_account", << Event("setup_git_account", repo) >>)
    /\ UNCHANGED << task, skip_clone, secrets, uccser_repos, idx, docs,
                    config_file, config, config_src, project, cwd >>

(* ------------------------------------------------------------------ *)
(* Project.run                                                        *)
(* ------------------------------------------------------------------ *)

(* A run whose push and build blocks have changed places. *)
AfterTask_Swapped(t) ==
    CASE t = "link-checker" -> "if_translation"
      [] t = "update-source-message-files" -> "build-project"
      [] t = "build-project" -> "push-source-files"
      [] t = "push-source-files" -> "pull-translations"
      [] OTHER -> "end_iteration"

(* The statement of Project.run that follows the block of task t; after  *)
(* the last block run returns to main().                                 *)
AfterTask(t) ==
    CASE t = "link-checker" -> "if_translation"
      [] t = "update-source-message-files" -> "push-source-files"
      [] t = "push-source-files" -> "build-project"
      [] t = "build-project" -> "pull-translations"
      [] OTHER -> "end_iteration"

(* Project.display_elapsed_time: log the time since self.start_time and   *)
(* take a new checkpoint; now is the length of the trace once logged.     *)
Project_display_elapsed_time(p, now) == [p EXCEPT !.start_time = now]

(* A task call whose exception is swallowed: the run goes on with the     *)
(* next block.                                                            *)
CallTask_Continues(t) ==
    \E ok \in BOOLEAN :
       IF ok
       THEN /\ trace' = trace \o << Event(t, project.name),
                                    Event("display_elapsed_time", project.name) >>
            /\ project' = Project_display_elapsed_time(project, Len(trace'))
            /\ pc' = AfterTask(t)
            /\ raised' = raised
       ELSE /\ trace' = Append(trace, Event(t, project.name))
            /\ project' = project
            /\ pc' = AfterTask(t)
            /\ raised' = t

(* A task function is called, then self.display_elapsed_time(); a raise   *)
(* of the task function leaves run() and main() before the latter.        *)
CallTask(t) ==
    \E ok \in BOOLEAN :
       IF ok
       THEN /\ trace' = trace \o << Event(t, project.name),
                                    Event("display_elapsed_time", project.name) >>
            /\ project' = Project_display_elapsed_time(project, Len(trace'))
            /\ pc' = AfterTask(t)
            /\ raised' = raised
       ELSE /\ Raise(t, << Event(t, project.name) >>)
            /\ project' = project

(* if self.cli_args.task in TASK_KEYWORDS["link-checker"] and             *)
(*    self.config.get("broken-link-checker"): check_links(self); ...      *)
Project_run_link_checker ==
    /\ pc = "link-checker"
    /\ IF /\ task \in TASK_KEYWORDS("link-checker")
          /\ Truthy(ConfigGet(project.config, "broken-link-checker"))
       THEN CallTask("link-checker")
       ELSE /\ pc' = AfterTask("link-checker")
            /\ UNCHANGED << trace, raised, project >>
    /\ UNCHANGED << task, skip_clone, secrets, uccser_repos, idx, docs,
                    config_file, config, config_src, cwd >>

(* A key lookup made only when the keyword selects a translation task. *)
Project_run_if_translation_Lazy ==
    /\ pc = "if_translation"
    /\ IF Truthy(ConfigGet(project.config, "translation"))
       THEN IF task \in TranslationTasks \cup { ALL_TASKS_KEYWORD }
            THEN \E ok \in BOOLEAN :
                    IF ok
                    THEN /\ trace' = Append(trace, Event("get_crowdin_api_key", project.name))
                         /\ pc' = TASKS[2]
                         /\ raised' = raised
                    ELSE Raise("get_crowdin_api_key",
                               << Event("get_crowdin_api_key", project.name) >>)
            ELSE /\ pc' = TASKS[2]
                 /\ UNCHANGED << trace, raised >>
       ELSE /\ pc' = "end_iteration"
            /\ UNCHANGED << trace, raised >>
    /\ UNCHANGED << task, skip_clone, secrets, uccser_repos, idx, docs,
                    config_file, config, config_src, project, cwd >>

(* if self.config.get("translation"):                                     *)
(*     self.crowdin_api_key = get_crowdin_api_key(self.name, self.secrets) *)
Project_run_if_translation ==
    /\ pc = "if_translation"
    /\ IF Truthy(ConfigGet(project.config, "translation"))
       THEN \E ok \in BOOLEAN :
               IF ok
               THEN /\ trace' = Append(trace, Event("get_crowdin_api_key", project.name))
                    /\ pc' = TASKS[2]
                    /\ raised' = raised
               ELSE Raise("get_crowdin_api_key",
                          << Event("get_crowdin_api_key", project.name) >>)
       ELSE /\ pc' = "end_iteration"
            /\ UNCHANGED << trace, raised >>
    /\ UNCHANGED << task, skip_clone, secrets, uccser_repos, idx, docs,
                    config_file, config, config_src, project, cwd >>

(* if self.cli_args.task in TASK_KEYWORDS[t]: t(self); ...   for each of  *)
(* the four translation tasks.                                            *)
Project_run_translation_task(t) ==
    /\ pc = t
    /\ IF task \in TASK_KEYWORDS(t)
       THEN CallTask(t)
       ELSE /\ pc' = AfterTask(t)
            /\ UNCHANGED << trace, raised, project >>
    /\ UNCHANGED << task, skip_clone, secrets, uccser_repos, idx, docs,
                    config_file, config, config_src, cwd >>

(* ------------------------------------------------------------------ *)
(* main(): end of an iteration, end of the run                        *)
(* ------------------------------------------------------------------ *)

(* logging.info(MAJOR_SEPERATOR) closes the iteration. *)
main_end_iteration ==
    /\ pc = "end_iteration"
    /\ trace' = Append(trace, Event("end_iteration", repo))
    /\ idx' = idx + 1
    /\ pc' = "for"
    /\ UNCHANGED << task, skip_clone, secrets, uccser_repos, docs, config_file,
                    config, config_src, project, cwd, raised >>

(* display_elapsed_time(start_time) *)
main_summary ==
    /\ pc = "summary"
    /\ trace' = Append(trace, Event("summary", 0))
    /\ pc' = "done"
    /\ UNCHANGED << task, skip_clone, secrets, uccser_repos, idx, docs,
                    config_file, config, config_src, project, cwd, raised >>

(* ------------------------------------------------------------------ *)
(* sys.excepthook, interrupts                                         *)
(* ------------------------------------------------------------------ *)

(* A hook without the early return: it logs the interrupt as well. *)
handle_exception_LogsAll ==
    /\ pc = "excepthook"
    /\ trace' = IF raised = "KeyboardInterrupt"
                THEN trace \o << Event("sys.__excepthook__", 0),
                                 Event("logging.critical", 0) >>
                ELSE Append(trace, Event("logging.critical", 0))
    /\ pc' = "crashed"
    /\ UNCHANGED << task, skip_clone, secrets, uccser_repos, idx, docs,
                    config_file, config, config_src, project, cwd, raised >>

(* handle_exception: a KeyboardInterrupt goes to sys.__excepthook__ and   *)
(* the hook returns; any other exception is logged with logging.critical  *)
(* and nothing else is called.  The process ends after the hook.          *)
handle_exception ==
    /\ pc = "excepthook"
    /\ trace' = IF raised = "KeyboardInterrupt"
                THEN Append(trace, Event("sys.__excepthook__", 0))
                ELSE Append(trace, Event("logging.critical", 0))
    /\ pc' = "crashed"
    /\ UNCHANGED << task, skip_clone, secrets, uccser_repos, idx, docs,
                    config_file, config, config_src, project, cwd, raised >>

(* The user interrupts the run: KeyboardInterrupt is raised at whatever   *)
(* statement main() is at; neither except clause of main() (GithubException, *)
(* yaml.YAMLError) catches it.                                            *)
KeyboardInterrupt ==
    /\ pc \notin { "excepthook", "crashed", "done", "exited" }
    /\ Raise("KeyboardInterrupt", << >>)
    /\ UNCHANGED << task, skip_clone, secrets, uccser_repos, idx, docs,
                    config_file, config, config_src, project, cwd >>

Next ==
    \/ main_read_secrets
    \/ main_resolve_repos
    \/ main_for
    \/ main_get_contents
    \/ main_if_config_file
    \/ main_yaml_load
    \/ main_if_config
    \/ Project__init__
    \/ Project_clone
    \/ main_chdir
    \/ setup_git_account
    \/ Project_run_link_checker
    \/ Project_run_if_translation
    \/ \E t \in TranslationTasks : Project_run_translation_task(t)
    \/ main_end_iteration
    \/ main_summary
    \/ handle_exception

Spec == Init /\ [][Next]_vars

(* The run with a user who may interrupt it at any point. *)
NextInterrupt == Next \/ KeyboardInterrupt

SpecInterrupt == Init /\ [][NextInterrupt]_vars

(* ------------------------------------------------------------------ *)
(* Vocabulary of the properties                                       *)
(* ------------------------------------------------------------------ *)

Terminated == pc \in { "done", "crashed", "exited" }

InList(r) == \E i \in 1..Len(uccser_repos) : uccser_repos[i] = r

Pos(r) == CHOOSE i \in 1..Len(uccser_repos) : uccser_repos[i] = r

(* The repositories that follow r in the list. *)
LaterRepos(r) == { uccser_repos[j] : j \in (Pos(r) + 1)..Len(uccser_repos) }

Has(e, r) == \E i \in 1..Len(trace) : trace[i].ev = e /\ trace[i].repo = r

Count(e, r) == Cardinality({ i \in 1..Len(trace) : trace[i].ev = e /\ trace[i].repo = r })

(* Everything that is done to a repository once a Project exists for it. *)
PipelineEvents ==
    TaskSet \cup { "Project", "rm", "git clone", "setup_git_account",
                   "get_crowdin_api_key" }

Untouched(r) == \A i \in 1..Len(trace) : trace[i].repo = r => trace[i].ev \notin PipelineEvents

(* The tasks run for repository r, in the order they ran. *)
TasksRun(r) == SelectSeq(trace, LAMBDA e : e.repo = r /\ e.ev \in TaskSet)

(* Project.run was entered for the current repository and is over:        *)
(* it returned to main() or one of its calls raised.                      *)
RunReturned == pc = "end_iteration" /\ project.name = repo

RunRaised == pc = "crashed" /\ raised \in TaskSet \cup { "get_crowdin_api_key" }

RunEnded == RunReturned \/ RunRaised

(* The task keyword selects task t: it is t's name or the wildcard. *)
Selected(t) == task = t \/ task = "all"

(* The condition under which task t is to run for config c. *)
Gate(c, t) ==
    IF t = "link-checker"
    THEN c.blc = "true" /\ Selected(t)
    ELSE c.translation \in { "true", "object" } /\ Selected(t)

(* A task before t in the fixed order raised. *)
EarlierTaskRaised(t) == raised \in TaskSet /\ TaskIndex(raised) < TaskIndex(t)

(* ------------------------------------------------------------------ *)
(* Claims C1 - C4: isolation of a repository's failure                *)
(* ------------------------------------------------------------------ *)

(* C1: if the clone step (directory removal or git clone) fails for a     *)
(* repository, every repository after it is still processed (its config   *)
(* is fetched) and the end-of-run summary is reached.                     *)
C1_CloneFailureIsolated ==
    (Terminated /\ raised \in { "rm", "git clone" })
        => /\ \A r \in LaterRepos(project.name) : Has("get_contents", r)
           /\ Has("summary", 0)

(* C2: if a task called by Project.run raises for a repository, every     *)
(* repository after it is still processed and the loop runs to its end:   *)
(* the process ends normally.                                             *)
C2_TaskFailureIsolated ==
    \A t \in TaskSet :
        (Terminated /\ Has(t, project.name) /\ raised = t)
            => /\ \A r \in LaterRepos(project.name) : Has("get_contents", r)
               /\ pc = "done"

(* C3: for every repository whose config document exists but is not YAML, *)
(* at any position of the list, the batch logs an error for it and still  *)
(* processes every repository after it (no collaborator failing).         *)
C3_ParseErrorIsolated ==
    (Terminated /\ raised \notin PipelineEvents \cup { "chdir" })
        => \A r \in Repos :
              docs[r].kind = "invalid"
                  => /\ Has("logging.error", r)
                     /\ \A q \in LaterRepos(r) : Has("get_contents", q)

(* C4: for every repository whose config document fails to parse, no      *)
(* Project is constructed and none of clone, identity setup or task runs  *)
(* for it; a Project is only ever constructed with a non-null config      *)
(* parsed from that same repository's document.                           *)
C4_NoProjectOnParseError ==
    /\ \A r \in Repos : docs[r].kind = "invalid" => Untouched(r)
    /\ \A i \in 1..Len(trace) :
          trace[i].ev = "Project"
              => /\ trace[i].src = trace[i].repo
                 /\ docs[trace[i].repo].kind = "map"

(* ------------------------------------------------------------------ *)
(* Claims C5, C6: what is skipped                                     *)
(* ------------------------------------------------------------------ *)

(* C5: for every repository whose config document cannot be fetched       *)
(* (absent), no Project is constructed, nothing is cloned, no identity is *)
(* set and no task runs for it; its iteration only tests config_file and  *)
(* closes, and the loop goes on to the next repository.                   *)
C5_AbsentConfigSkipped ==
    \A r \in Repos :
        docs[r].kind = "absent"
            => /\ Untouched(r)
               /\ (idx <= Len(uccser_repos) /\ repo = r)
                     => pc \in { "if_config_file", "end_iteration" }
               /\ idx > Pos(r) => Has("end_iteration", r)

(* C5 witness: a repository without a config document was skipped and a   *)
(* repository after it was fetched.                                       *)
C5_Witness ==
    \E r \in Repos :
        /\ docs[r].kind = "absent"
        /\ Untouched(r)
        /\ \E q \in LaterRepos(r) : Has("get_contents", q)

(* C6: a missing required secret halts the run before the repository set  *)
(* is resolved: nothing is listed, fetched, cloned or run; and whatever   *)
(* is listed, fetched, cloned or run comes after all secrets were found.  *)
C6_MissingSecretHalts ==
    /\ secrets = "missing"
          => pc = "exited" /\ trace = << >> /\ uccser_repos = << >>
    /\ (trace # << >> \/ uccser_repos # << >> \/ pc \notin { "read_secrets", "exited" })
          => secrets = "ok"

(* C6 witness: the run that ended on a missing secret. *)
C6_Witness == secrets = "missing" /\ pc = "exited" /\ trace = << >>

(* ------------------------------------------------------------------ *)
(* Claims C7 - C9: which tasks run, and in which order                *)
(* ------------------------------------------------------------------ *)

C8_FixedOrder ==
    /\ \A r \in Repos :
          LET s == TasksRun(r) IN
             \A i, j \in 1..Len(s) :
                i < j => TaskIndex(s[i].ev) < TaskIndex(s[j].ev)
    /\ (/\ RunReturned
        /\ task = "all"
        /\ project.config.blc = "true"
        /\ project.config.translation = "true")
          => LET s == TasksRun(project.name) IN
                /\ Len(s) = Len(TASKS)
                /\ \A i \in 1..Len(s) : s[i].ev = TASKS[i]

(* C8 witness: run returned for task "all" with both flags true, after    *)
(* five tasks. *)
C8_Witness ==
    /\ RunReturned
    /\ task = "all"
    /\ project.config.blc = "true"
    /\ project.config.translation = "true"
    /\ Len(TasksRun(project.name)) = 5

(* C9: when the task keyword names a single task, no other task ever      *)
(* runs, for any repository and any config.                               *)
C9_OnlyNamedTaskRuns ==
    task \in TaskSet =>
        \A i \in 1..Len(trace) : trace[i].ev \in TaskSet => trace[i].ev = task

(* C9 witness: keyword "build-project", both flags set: run returned and  *)
(* build-project is the one task that ran.                                *)
C9_Witness ==
    /\ RunReturned
    /\ task = "build-project"
    /\ project.config.blc = "true"
    /\ Truthy(project.config.translation)
    /\ Len(TasksRun(project.name)) = 1
    /\ Has("build-project", project.name)

(* ------------------------------------------------------------------ *)
(* Claim C10: the skip-clone flag                                     *)
(* ------------------------------------------------------------------ *)

(* The positions of main() inside Project.run. *)
InRun == pc \in TaskSet \cup { "if_translation" }

(* C10: with skip-clone no directory is removed and nothing is cloned;    *)
(* with or without it, the identity is set at most once per repository,   *)
(* exactly once before the repository's pipeline starts and before any of *)
(* its tasks; and in a run that reaches its end every repository with a   *)
(* valid config had its identity set once and its tasks run as gated by   *)
(* task and config.                                                       *)
C10_SkipCloneKeepsSetup ==
    /\ skip_clone => \A i \in 1..Len(trace) : trace[i].ev \notin { "rm", "git clone" }
    /\ \A r \in Repos : Count("setup_git_account", r) <= 1
    /\ \A j \in 1..Len(trace) :
          trace[j].ev \in TaskSet \cup { "get_crowdin_api_key" }
              => \E i \in 1..(j - 1) :
                    /\ trace[i].ev = "setup_git_account"
                    /\ trace[i].repo = trace[j].repo
    /\ (InRun \/ RunEnded) => Count("setup_git_account", project.name) = 1
    /\ pc = "done"
          => \A r \in Repos :
                (InList(r) /\ docs[r].kind = "map")
                    => /\ Count("setup_git_account", r) = 1
                       /\ \A t \in TaskSet : Has(t, r) <=> Gate(docs[r], t)

(* C10 witness: a finished run with skip-clone in which a repository with *)
(* a valid config had its identity set and a task run, nothing cloned.    *)
C10_Witness ==
    /\ pc = "done"
    /\ skip_clone
    /\ \E r \in Repos :
          /\ docs[r].kind = "map"
          /\ Count("setup_git_account", r) = 1
          /\ Len(TasksRun(r)) >= 1
          /\ ~Has("git clone", r)

(* ------------------------------------------------------------------ *)
(* Claim C11: elapsed time after every task                           *)
(* ------------------------------------------------------------------ *)

(* C11: after each task that runs in Project.run, the elapsed time is     *)
(* logged and the checkpoint Project.start_time is taken anew, whether    *)
(* the task returned or raised.                                           *)
C11_ElapsedLoggedAfterEveryTask ==
    \A j \in 1..Len(trace) :
        trace[j].ev \in TaskSet
            => /\ j < Len(trace)
               /\ trace[j + 1] = Event("display_elapsed_time", trace[j].repo)
               /\ trace[j].repo = project.name => project.start_time > j

(* ------------------------------------------------------------------ *)
(* Claim C12: Project.clone without skip-clone                        *)
(* ------------------------------------------------------------------ *)

(* C12: without skip-clone, an existing working directory is removed      *)
(* before the clone is issued, a removal is never issued for a directory  *)
(* that does not exist, and a clone is issued whether the directory       *)
(* existed or not (after the removal, once it returned): a clone always   *)
(* comes right after a test that found no directory or after a removal,   *)
(* and Project.clone returns after exactly one clone.                     *)
C12_RemoveThenClone ==
    /\ \A j \in 1..Len(trace) :
          LET e == trace[j]
              RmRaised == raised = "rm" /\ e.repo = project.name
          IN  /\ e.ev = "isdir:True"
                    => j < Len(trace) /\ trace[j + 1] = Event("rm", e.repo)
              /\ e.ev = "rm"
                    => /\ j > 1 /\ trace[j - 1] = Event("isdir:True", e.repo)
                       /\ ~RmRaised
                            => j < Len(trace) /\ trace[j + 1] = Event("git clone", e.repo)
              /\ e.ev = "isdir:False"
                    => j < Len(trace) /\ trace[j + 1] = Event("git clone", e.repo)
              /\ e.ev = "git clone"
                    => j > 1 /\ trace[j - 1] \in { Event("isdir:False", e.repo),
                                                  Event("rm", e.repo) }
    /\ (~skip_clone /\ pc = "chdir") => Count("git clone", project.name) = 1

(* C12 witness: Project.clone returned after it found the directory,      *)
(* removed it and cloned.                                                 *)
C12_Witness ==
    /\ pc = "chdir"
    /\ ~skip_clone
    /\ Len(trace) >= 3
    /\ trace[Len(trace) - 2] = Event("isdir:True", project.name)
    /\ trace[Len(trace) - 1] = Event("rm", project.name)
    /\ trace[Len(trace)] = Event("git clone", project.name)

(* ------------------------------------------------------------------ *)
(* Claim C13: a config document that parses to nothing                *)
(* ------------------------------------------------------------------ *)

(* C13: for every repository whose config document parses to a null or    *)
(* empty document, no Project is constructed, nothing is cloned, no       *)
(* identity is set and no task runs for it, whatever was parsed before;   *)
(* its iteration only parses, tests and closes, and the loop goes on.     *)
C13_EmptyConfigSkipped ==
    \A r \in Repos :
        docs[r].kind \in { "null", "empty" }
            => /\ Untouched(r)
               /\ (idx <= Len(uccser_repos) /\ repo = r)
                     => pc \in { "if_config_file", "yaml_load", "if_config",
                                 "end_iteration" }
               /\ idx > Pos(r) => Has("end_iteration", r)

(* C13 witness: a repository with a null or empty document was skipped    *)
(* although a Project had been built from the config of the repository    *)
(* before it.                                                             *)
C13_Witness ==
    \E r \in Repos :
        /\ docs[r].kind \in { "null", "empty" }
        /\ Has("end_iteration", r)
        /\ Untouched(r)
        /\ \E q \in Repos : InList(q) /\ Pos(q) < Pos(r) /\ Has("Project", q)

(* ------------------------------------------------------------------ *)
(* Claim C14: the exception hook and interrupts                       *)
(* ------------------------------------------------------------------ *)

(* What the hook did, in order. *)
HookCalls ==
    LET h == SelectSeq(trace, LAMBDA e : e.ev \in { "logging.critical",
                                                    "sys.__excepthook__" })
    IN  [i \in 1..Len(h) |-> h[i].ev]

(* An interrupt leaves nothing to run but the hook. *)
InterruptEndsRun ==
    raised = "KeyboardInterrupt"
        => /\ pc \in { "excepthook", "crashed" }
           /\ pc = "crashed" => HookCalls = << "sys.__excepthook__" >>

(* C14 as stated: the hook logs every uncaught error that is not an       *)
(* interrupt and then passes it on to the default handler; an interrupt   *)
(* is not logged and only goes to the default handler; an interrupt at    *)
(* any point ends the run.                                                *)
C14_HookLogsAndPassesOn ==
    /\ (pc = "crashed" /\ raised # "KeyboardInterrupt")
          => HookCalls = << "logging.critical", "sys.__excepthook__" >>
    /\ InterruptEndsRun

(* C14 as amended: the hook logs every uncaught error that is not an      *)
(* interrupt and calls nothing else (the default handler is not invoked   *)
(* for it); an interrupt is not logged and only goes to the default       *)
(* handler; an interrupt at any point ends the run.                       *)
C14_HookLogsOnly ==
    /\ (pc = "crashed" /\ raised # "KeyboardInterrupt")
          => HookCalls = << "logging.critical" >>
    /\ InterruptEndsRun

(* C14 witness: the user interrupted the run after a task of the first of *)
(* two repositories; the second was never fetched.                        *)
C14_Witness ==
    /\ pc = "crashed"
    /\ raised = "KeyboardInterrupt"
    /\ Len(uccser_repos) = 2
    /\ idx = 1
    /\ Len(TasksRun(uccser_repos[1])) >= 1
    /\ ~Has("get_contents", uccser_repos[2])
    /\ HookCalls = << "sys.__excepthook__" >>

(* ------------------------------------------------------------------ *)
(* Claims C15, C16: what a failure prevents                           *)
(* ------------------------------------------------------------------ *)

(* C15: once a task has raised during Project.run, nothing more of that   *)
(* run happens: no later task of the same repository, no key lookup, no   *)
(* elapsed-time log; a link-checker failure prevents the four             *)
(* translation tasks.                                                     *)
C15_FailFast ==
    raised \in TaskSet
        => \E j \in 1..Len(trace) :
              /\ trace[j] = Event(raised, project.name)
              /\ \A k \in (j + 1)..Len(trace) :
                    trace[k].ev \notin TaskSet \cup { "get_crowdin_api_key",
                                                      "display_elapsed_time" }

(* C15 witness: task "all", translation set, link-checker raised: it is   *)
(* the only task that ran for the repository.                             *)
C15_Witness ==
    /\ pc = "crashed"
    /\ raised = "link-checker"
    /\ task = "all"
    /\ Truthy(project.config.translation)
    /\ Len(TasksRun(project.name)) = 1

(* C16: without skip-clone, every task run for a repository comes after a *)
(* git clone of that repository in the same loop iteration, and that      *)
(* clone returned: after a removal or a clone that raised, no task runs.  *)
C16_TaskAfterClone ==
    ~skip_clone
        => /\ \A j \in 1..Len(trace) :
                 trace[j].ev \in TaskSet
                     => \E i \in 1..(j - 1) :
                           /\ trace[i] = Event("git clone", trace[j].repo)
                           /\ \A k \in i..j : trace[k].ev # "end_iteration"
           /\ raised \in { "rm", "git clone" } => TasksRun(project.name) = << >>

(* C16 witness: without skip-clone, run returned after a task ran on the  *)
(* fresh clone.                                                           *)
C16_Witness ==
    /\ ~skip_clone
    /\ RunReturned
    /\ Has("git clone", project.name)
    /\ Len(TasksRun(project.name)) >= 1

(* ------------------------------------------------------------------ *)
(* Claim C17: the current directory                                   *)
(* ------------------------------------------------------------------ *)

(* C17: from the head of each iteration up to the change of directory     *)
(* (so when the clone is issued) the current directory is the projects    *)
(* directory; the identity setup and every statement of Project.run (so   *)
(* every task) run in the repository's own directory.                     *)
C17_WorkingDirectory ==
    /\ pc \in { "get_contents", "if_config_file", "yaml_load", "if_config",
                "Project", "clone", "chdir" }
          => cwd = 0
    /\ (pc = "setup_git_account" \/ InRun)
          => /\ project.name = repo
             /\ project.directory = repo
             /\ cwd = project.directory

(* C17 witness: the clone of the second repository is about to be issued  *)
(* from the projects directory, after a task ran in the first one's.      *)
C17_Witness ==
    /\ pc = "clone"
    /\ idx = 2
    /\ cwd = 0
    /\ Len(TasksRun(uccser_repos[1])) >= 1

(* ------------------------------------------------------------------ *)
(* Claim C18: the translation-service key lookup                      *)
(* ------------------------------------------------------------------ *)

(* C18: when Project.run is over and link-checker did not raise, the key  *)
(* lookup was made (once) iff the translation flag is truthy, whatever    *)
(* the task keyword; it comes after the link-checker task and before      *)
(* every translation task of the repository; no translation task runs     *)
(* without a lookup that returned; a lookup that raises ends the run.     *)
C18_KeyLookup ==
    /\ (RunEnded /\ raised # "link-checker")
          => IF Truthy(project.config.translation)
             THEN Count("get_crowdin_api_key", project.name) = 1
             ELSE ~Has("get_crowdin_api_key", project.name)
    /\ \A j \in 1..Len(trace) :
          trace[j].ev = "get_crowdin_api_key"
              => \A k \in 1..Len(trace) :
                    trace[k].repo = trace[j].repo
                        => /\ trace[k].ev = "link-checker" => k < j
                           /\ trace[k].ev \in TranslationTasks => j < k
    /\ \A k \in 1..Len(trace) :
          trace[k].ev \in TranslationTasks
              => /\ Has("get_crowdin_api_key", trace[k].repo)
                 /\ ~(raised = "get_crowdin_api_key" /\ trace[k].repo = project.name)
    /\ raised = "get_crowdin_api_key" => pc \in { "excepthook", "crashed" }

(* C18 witness: a keyword that selects no task at all, translation set:   *)
(* the lookup was made, raised, and ended the run.                        *)
C18_Witness ==
    /\ pc = "crashed"
    /\ raised = "get_crowdin_api_key"
    /\ task = "no-such-task"
    /\ Truthy(project.config.translation)
    /\ TasksRun(project.name) = << >>

====
